---- MODULE Spec2Model ----
(***************************************************************************)
(* The htmx extension "alpine-interop" (src/alpine-interop.js) as a state  *)
(* machine: a page (a DOM path html > body > nested elements, each with    *)
(* its hx-* attributes and its Alpine scope), a server that answers a      *)
(* request, the extension's transformResponse and handleSwap callbacks and *)
(* the swap htmx performs after them.  One response is followed from its   *)
(* arrival to its swap.                                                    *)
(*                                                                         *)
(* Alpine.$data is the one of the repository's tests: an element's own     *)
(* _alpineData, or an empty object.  The handler is the one of the tests,  *)
(* `this.posts = data`.                                                    *)
(*                                                                         *)
(* Strings the code takes apart (header values, response bodies, the       *)
(* hx-handle-json-params attribute) are sequences of tokens, so that       *)
(* includes(), split(","), trim() and JSON.parse are computed.             *)
(*                                                                         *)
(* The extension's init is followed too: the DOMContentLoaded listener it  *)
(* registers, the MutationObserver that listener installs, the insertion   *)
(* of nodes by the page's scripts and the observer's callback.  A page's   *)
(* scripts may misbehave: Alpine may be undefined, a handler may throw.    *)
(*                                                                         *)
(* The repository also documents and tests a variant that announces JSON   *)
(* responses with an htmx:jsonResponse event; its code is not among the    *)
(* sources, and "the event variant" below follows its documentation.       *)
(***************************************************************************)
EXTENDS Integers, Sequences, FiniteSets, TLC

\* ------------------------------------------------------------------ bounds
\* Number of elements nested below <body> (element 2 is body's child,
\* element Depth + 1 the innermost one).
Depth == 2
\* Longest hx-handle-json-params attribute value, in characters.
MaxParamLen == 4

\* ---------------------------------------------------------------- elements
\* `current` once parentElement has run off the tree (null).
NoElt == -1
\* document.documentElement, the parent of document.body.
Html == 0
\* document.body.
Body == 1
Nested == 2..(Depth + 1)
Elems == {Html, Body} \cup Nested

\* ------------------------------------------------------------ attributes
\* getAttribute gives null for an attribute the element does not carry.
NoAttr == [present |-> FALSE, value |-> <<>>]
Attr(v) == [present |-> TRUE, value |-> v]
\* JavaScript truthiness of a getAttribute result: null and "" are falsy.
Truthy(a) == a.present /\ a.value # <<>>
\* The method name the pages of this model use in hx-handle-json.
HandlerName == <<"handleData">>
HandlerAttrs == {NoAttr, Attr(<<>>), Attr(HandlerName)}

\* What scope[handlerName] is in an element's Alpine data: missing, a value
\* that is not a function, or a function.
ScopeKinds == {"undefined", "data", "function"}

VARIABLES
  parentElement,       \* element -> its parent element, or NoElt
  hxHandleJson,        \* element -> its hx-handle-json attribute
  hxHandleJsonParams,  \* element -> its hx-handle-json-params attribute
  hxSwap,              \* element -> its hx-swap attribute
  hxExt,               \* the elements that carry hx-ext="alpine-interop"
  alpineData,          \* element -> kind of _alpineData[HandlerName]
  posts,               \* element -> the field `posts` of its Alpine data
  content,             \* element -> its innerHTML
  server,              \* the responses the server may give
  pc,                  \* "idle", "transformed", "swapped"
  req,                 \* the response being handled: text, xhr, elt
  ret,                 \* what transformResponse returned
  scope,               \* the element whose scope the lookup selected
  calls,               \* invocations of Alpine handlers, in order
  errors,              \* number of console.error calls
  events,              \* DOM events dispatched by the extension
  target,              \* the swap target htmx resolved
  swapPrevented,       \* what handleSwap returned
  escaped,             \* an exception left transformResponse
  visited,             \* the elements the lookup's loop body ran for, in order
  alpineLoaded,        \* window.Alpine is defined
  handlerThrows,       \* the page's handler throws when it is called
  listeners,           \* the elements with an htmx:jsonResponse listener
  delivered,           \* the listeners' elements an event reached, in order
  nodeType,            \* node -> "element" or "text"
  hxRequest,           \* node -> the hx-* request attributes it carries
  readyState,          \* document.readyState: "loading" or "complete"
  listenerAdded,       \* init has registered its DOMContentLoaded listener
  observing,           \* the MutationObserver observes document.body
  records,             \* mutation records queued for the observer
  reported,            \* the nodes the observer's callback was given
  processLog,          \* the extension's htmx.process calls, in order
  processed            \* the elements htmx has processed

dom == <<parentElement, hxHandleJson, hxHandleJsonParams, hxExt, alpineData,
         server>>
\* How the page's scripts behave.
scripts == <<alpineLoaded, handlerThrows, listeners>>
\* The document's nodes, its loading and the observer.
observer == <<nodeType, hxRequest, readyState, listenerAdded, observing,
              records, reported, processLog, processed>>
vars == <<parentElement, hxHandleJson, hxHandleJsonParams, hxSwap, hxExt, alpineData,
          posts, content, server, pc, req, ret, scope, calls, errors, events,
          target, swapPrevented, escaped, visited, alpineLoaded, handlerThrows,
          listeners, delivered, nodeType, hxRequest, readyState, listenerAdded,
          observing, records, reported, processLog, processed>>

\* ------------------------------------------------------- string helpers
\* String.prototype.includes: pat occurs in s as a contiguous run.
Includes(s, pat) ==
  \E i \in 1..(Len(s) - Len(pat) + 1) : SubSeq(s, i, i + Len(pat) - 1) = pat

\* The media type the extension looks for, "application/json".
ApplicationJson == <<"application/", "json">>

RECURSIVE SplitAcc(_, _, _)
SplitAcc(s, cur, acc) ==
  IF s = <<>> THEN Append(acc, cur)
  ELSE IF Head(s) = "," THEN SplitAcc(Tail(s), <<>>, Append(acc, cur))
  ELSE SplitAcc(Tail(s), Append(cur, Head(s)), acc)

\* String.prototype.split(","): the pieces between the commas, in order.
Split(s) == SplitAcc(s, <<>>, <<>>)

IsSpace(c) == c = " "

RECURSIVE TrimStart(_)
TrimStart(s) ==
  IF s # <<>> /\ IsSpace(Head(s)) THEN TrimStart(Tail(s)) ELSE s

RECURSIVE TrimEnd(_)
TrimEnd(s) ==
  IF s # <<>> /\ IsSpace(s[Len(s)]) THEN TrimEnd(SubSeq(s, 1, Len(s) - 1)) ELSE s

\* String.prototype.trim.
Trim(s) == TrimEnd(TrimStart(s))

\* ------------------------------------------------------------ JSON.parse
JsNull == [kind |-> "null", items |-> <<>>]
JsNumber == [kind |-> "number", items |-> <<>>]
JsArray(items) == [kind |-> "array", items |-> items]
ParseFail == [ok |-> FALSE, value |-> JsNull, rest |-> <<>>]

\* JSON.parse on the token alphabet "[", "]", ",", "7": a value is the number
\* 7 or an array of values; anything else, or text left over, is a SyntaxError.
RECURSIVE ParseValue(_), ParseItems(_, _)
ParseValue(s) ==
  IF s = <<>> THEN ParseFail
  ELSE IF Head(s) = "7" THEN [ok |-> TRUE, value |-> JsNumber, rest |-> Tail(s)]
  ELSE IF Head(s) = "["
    THEN IF Tail(s) # <<>> /\ Head(Tail(s)) = "]"
           THEN [ok |-> TRUE, value |-> JsArray(<<>>), rest |-> Tail(Tail(s))]
           ELSE ParseItems(Tail(s), <<>>)
  ELSE ParseFail

ParseItems(s, acc) ==
  LET v == ParseValue(s) IN
    IF ~v.ok \/ v.rest = <<>> THEN ParseFail
    ELSE IF Head(v.rest) = "]"
      THEN [ok |-> TRUE, value |-> JsArray(Append(acc, v.value)),
            rest |-> Tail(v.rest)]
    ELSE IF Head(v.rest) = ","
      THEN ParseItems(Tail(v.rest), Append(acc, v.value))
    ELSE ParseFail

\* [ok |-> the text parsed, value |-> what it parsed to]; ~ok is a throw.
JSONparse(text) ==
  LET v == ParseValue(text) IN
    IF v.ok /\ v.rest = <<>> THEN [ok |-> TRUE, value |-> v.value]
    ELSE [ok |-> FALSE, value |-> JsNull]

\* ------------------------------------------------- the page and the server
\* elt.getAttribute(name), on the attribute maps of the page.
getAttribute(attrs, e) == attrs[e]

\* xhr.getResponseHeader("content-type"): null when the header is missing.
getResponseHeader(xhr) == xhr.contentType

TextHtml == <<"text/", "html">>
JsonUtf8 == <<"application/", "json", "; charset=utf-8">>
ContentTypes == {NoAttr, Attr(TextHtml), Attr(ApplicationJson), Attr(JsonUtf8)}

\* Response bodies: empty, a JSON document, and text that is not JSON.
EmptyText == <<>>
JsonText == <<"[", "7", "]">>
BrokenText == <<"[", "7">>
Texts == {EmptyText, JsonText, BrokenText}

\* What an element holds before any swap.
OriginalContent == <<"<button>">>

\* Mutant: the typeof test is dropped, any truthy entry counts as a handler.
IsHandlerTruthy(e, name) == name = HandlerName /\ alpineData[e] # "undefined"

\* typeof Alpine.$data(e)[name] === "function", with the page's Alpine data
\* (Alpine.$data(e) is e._alpineData, or an empty object).
IsHandler(e, name) == name = HandlerName /\ alpineData[e] = "function"

\* ------------------------------------------------------ transformResponse
\* Mutant: any response that has a content-type header passes the guard.
IsJsonResponseAnyType(xhr) == Truthy(getResponseHeader(xhr))

\* The guard on the response's content type.
IsJsonResponse(xhr) ==
  LET header == getResponseHeader(xhr)
      contentType == IF Truthy(header) THEN header.value ELSE <<>>
  IN Includes(contentType, ApplicationJson)

\* Mutant: the loop has no `current !== document.body` test.
RECURSIVE FindScopeToRoot(_, _)
FindScopeToRoot(current, handlerName) ==
  IF current = NoElt THEN NoElt
  ELSE IF IsHandler(current, handlerName) THEN current
  ELSE FindScopeToRoot(parentElement[current], handlerName)

\* The while loop: the first element from `current` upwards, before
\* document.body and before the tree ends, whose scope holds the handler.
RECURSIVE FindScope(_, _)
FindScope(current, handlerName) ==
  IF current = NoElt \/ current = Body THEN NoElt
  ELSE IF IsHandler(current, handlerName) THEN current
  ELSE FindScope(parentElement[current], handlerName)

\* Mutant: the loop has no break, it goes on after a match.
RECURSIVE VisitsWithoutBreak(_, _)
VisitsWithoutBreak(current, handlerName) ==
  IF current = NoElt \/ current = Body THEN <<>>
  ELSE IF ~alpineLoaded THEN <<current>>
  ELSE <<current>> \o VisitsWithoutBreak(parentElement[current], handlerName)

\* The iterations of the while loop: the elements its body runs for, from
\* `current` upwards. The body's Alpine.$data call throws when Alpine is not
\* loaded; a match breaks out of the loop.
RECURSIVE Visits(_, _)
Visits(current, handlerName) ==
  IF current = NoElt \/ current = Body THEN <<>>
  ELSE IF ~alpineLoaded THEN <<current>>
  ELSE IF IsHandler(current, handlerName) THEN <<current>>
  ELSE <<current>> \o Visits(parentElement[current], handlerName)

\* Mutant: the items are not trimmed.
ParseParamsUntrimmed(paramsAttr) ==
  IF Truthy(paramsAttr) THEN Split(paramsAttr.value) ELSE <<>>

\* hx-handle-json-params as the extra arguments.
ParseParams(paramsAttr) ==
  IF Truthy(paramsAttr)
    THEN LET pieces == Split(paramsAttr.value)
         IN [i \in 1..Len(pieces) |-> Trim(pieces[i])]
    ELSE <<>>

\* Mutant: the text is never parsed, the handler gets null.
ResponseDataUnparsed(text) == [ok |-> TRUE, value |-> JsNull]

\* Mutant: text that does not parse is handed on as null.
ResponseDataLenient(text) ==
  IF JSONparse(text).ok THEN JSONparse(text)
  ELSE [ok |-> TRUE, value |-> JsNull]

\* text ? JSON.parse(text) : null
ResponseData(text) ==
  IF text # <<>> THEN JSONparse(text) ELSE [ok |-> TRUE, value |-> JsNull]

\* Mutant: the handler runs with the triggering element's own scope as `this`.
HandlerCallThisOfElt(found, responseData, elt, params) ==
  [fn |-> found, this |-> elt, data |-> responseData, elt |-> elt,
   rest |-> params]

\* handler.call(scope, responseData, elt, ...params): the function taken from
\* the scope of element `found`, and the scope it runs with as `this`.
HandlerCall(found, responseData, elt, params) ==
  [fn |-> found, this |-> found, data |-> responseData, elt |-> elt,
   rest |-> params]

\* Mutant: after a handler has run, an empty string is returned.
ReturnedEmptyWhenHandled(text, found, made, logged) ==
  [ret |-> IF made # <<>> THEN <<>> ELSE text, scope |-> found,
   calls |-> made, errors |-> logged, escaped |-> FALSE]

\* `return text`, with what transformResponse did before it: the scope it
\* selected, the calls it made, the errors it logged.
Returned(text, found, made, logged) ==
  [ret |-> text, scope |-> found, calls |-> made, errors |-> logged,
   escaped |-> FALSE]

\* Mutant: the try block opens after the scope lookup.
CaughtAfterLookup(stage) == stage \in {"parse", "handler"}

\* The stages the try block encloses: the scope lookup, JSON.parse and the
\* handler's call.
Caught(stage) == stage \in {"lookup", "parse", "handler"}

\* An exception thrown at `stage`: inside the try block it is logged by
\* console.error and the catch block returns text; outside, it propagates.
Thrown(stage, text, found, made) ==
  IF Caught(stage) THEN Returned(text, found, made, 1)
  ELSE [ret |-> <<>>, scope |-> found, calls |-> made, errors |-> 0,
        escaped |-> TRUE]

transformResponse(text, xhr, elt) ==
  IF ~IsJsonResponse(xhr) THEN Returned(text, NoElt, <<>>, 0)
  ELSE LET handlerName == getAttribute(hxHandleJson, elt) IN
    IF ~Truthy(handlerName) THEN Returned(text, NoElt, <<>>, 0)
    \* Alpine.$data(current) is a ReferenceError when Alpine is not loaded;
    \* the loop body is not entered for document.body.
    ELSE IF ~alpineLoaded /\ elt # NoElt /\ elt # Body
      THEN Thrown("lookup", text, NoElt, <<>>)
    ELSE LET found == FindScope(elt, handlerName.value) IN
      IF found = NoElt THEN Returned(text, NoElt, <<>>, 0)
      ELSE LET params == ParseParams(getAttribute(hxHandleJsonParams, elt))
               parsed == ResponseData(text)
               call == HandlerCall(found, parsed.value, elt, params)
           IN IF ~parsed.ok THEN Thrown("parse", text, found, <<>>)
              ELSE IF handlerThrows THEN Thrown("handler", text, found, <<call>>)
              ELSE Returned(text, found, <<call>>, 0)

\* -------------------------------------------------------------- handleSwap
\* Mutant: the wrong attribute is read, hx-handle-json-params.
handleSwapWrongAttribute(swapStyle, t) ==
  Truthy(getAttribute(hxHandleJsonParams, t))

\* Mutant: null is compared with undefined, so every target counts as handled.
handleSwapAlways(swapStyle, t) == TRUE

\* Mutant: the attribute is read from the triggering element.
handleSwapOfTrigger(swapStyle, t) ==
  Truthy(getAttribute(hxHandleJson, req.elt))

\* TRUE prevents the default swap.
handleSwap(swapStyle, t) ==
  LET handlerName == getAttribute(hxHandleJson, t) IN
    IF Truthy(handlerName) THEN TRUE ELSE FALSE

\* ------------------------------------------------------------------- Init
NoXhr == [id |-> 0, contentType |-> NoAttr]
NoReq == [text |-> <<>>, xhr |-> NoXhr, elt |-> NoElt]

\* Responses with every content type and every body, for one request.
Responses(ids, types, texts) ==
  {[text |-> t, xhr |-> [id |-> i, contentType |-> c]] :
     t \in texts, c \in types, i \in ids}

\* html > body > 2 > ... > Depth + 1, all attached to the document.
Attached == [e \in Elems |-> IF e = Html THEN NoElt ELSE e - 1]

\* Nothing has been requested, swapped or called yet.
Fresh ==
  /\ hxSwap = [e \in Elems |-> NoAttr]
  /\ posts = [e \in Elems |-> JsArray(<<>>)]
  /\ content = [e \in Elems |-> OriginalContent]
  /\ pc = "idle"
  /\ req = NoReq
  /\ ret = <<>>
  /\ scope = NoElt
  /\ calls = <<>>
  /\ errors = 0
  /\ events = <<>>
  /\ target = NoElt
  /\ swapPrevented = FALSE
  /\ escaped = FALSE
  /\ visited = <<>>
  /\ delivered = <<>>

\* The page's scripts are in order: Alpine is loaded, the handler returns.
Sound ==
  /\ alpineLoaded = TRUE
  /\ handlerThrows = FALSE

\* A page that has finished loading with all its elements in place: htmx
\* has processed them, the observer is installed and has nothing to report.
Loaded ==
  /\ nodeType = [e \in Elems |-> "element"]
  /\ hxRequest = [e \in Elems |-> {"hx-get"}]
  /\ readyState = "complete"
  /\ listenerAdded = TRUE
  /\ observing = TRUE
  /\ records = <<>>
  /\ reported = <<>>
  /\ processLog = <<>>
  /\ processed = Elems

\* The pages of the main specification: the whole document is inside
\* hx-ext="alpine-interop"; any hx-handle-json on the nested elements, a
\* named one or none on html and body; any Alpine data on every element;
\* no hx-handle-json-params.
Init ==
  /\ parentElement = Attached
  /\ hxHandleJson \in [Elems -> HandlerAttrs]
  /\ hxHandleJson[Html] # Attr(<<>>)
  /\ hxHandleJson[Body] # Attr(<<>>)
  /\ hxHandleJsonParams = [e \in Elems |-> NoAttr]
  /\ hxExt = {Html}
  /\ alpineData \in [Elems -> ScopeKinds]
  /\ alpineData[Html] # "data"
  /\ alpineData[Body] # "data"
  /\ server = Responses({1}, ContentTypes, Texts)
  /\ listeners = {}
  /\ Sound /\ Loaded /\ Fresh

\* ---------------------------------------------------------------- actions
\* The handler of the page's Alpine data: `this.posts = data`; a handler
\* that throws does so before it assigns.
RunHandlers(made) ==
  IF made = <<>> \/ handlerThrows THEN posts
  ELSE [posts EXCEPT ![made[1].this] = made[1].data]

\* Mutant: once defined, the extension applies to every element.
InExtensionEverywhere(e) == e # NoElt

\* htmx applies an extension to the elements that carry its name in hx-ext
\* and to their descendants.
RECURSIVE InExtension(_)
InExtension(e) ==
  IF e = NoElt THEN FALSE
  ELSE e \in hxExt \/ InExtension(parentElement[e])

\* htmx receives a response for a request triggered by elt, an element it
\* has processed, and hands it to the extension's transformResponse when
\* the extension applies to elt; otherwise the text stays as it came. The
\* response arrives in a task of its own: the observer has been told of
\* every earlier insertion by then.
TransformResponse ==
  /\ pc = "idle"
  /\ records = <<>>
  /\ \E r \in server, elt \in processed :
       LET out == IF InExtension(elt)
                    THEN transformResponse(r.text, r.xhr, elt)
                    ELSE Returned(r.text, NoElt, <<>>, 0)
       IN
         /\ req' = [text |-> r.text, xhr |-> r.xhr, elt |-> elt]
         /\ ret' = out.ret
         /\ scope' = out.scope
         /\ calls' = out.calls
         /\ errors' = out.errors
         /\ escaped' = out.escaped
         /\ visited' = IF /\ InExtension(elt) /\ IsJsonResponse(r.xhr)
                          /\ Truthy(getAttribute(hxHandleJson, elt))
                         THEN Visits(elt, getAttribute(hxHandleJson, elt).value)
                         ELSE <<>>
         /\ posts' = RunHandlers(out.calls)
  /\ pc' = "transformed"
  /\ UNCHANGED <<dom, scripts, observer, hxSwap, content, events, delivered,
                 target, swapPrevented>>

\* htmx swaps the transformed response into the target it resolved, unless
\* the extension's handleSwap prevents it.
Swap ==
  /\ pc = "transformed"
  /\ ~escaped
  /\ \E t \in Elems :
       LET prevented == InExtension(req.elt) /\ handleSwap("innerHTML", t) IN
         /\ target' = t
         /\ swapPrevented' = prevented
         /\ content' = IF prevented THEN content
                       ELSE [content EXCEPT ![t] = ret]
  /\ pc' = "swapped"
  /\ UNCHANGED <<dom, scripts, observer, hxSwap, posts, req, ret, scope,
                 calls, errors, events, delivered, escaped, visited>>

Next == TransformResponse \/ Swap

Spec == Init /\ [][Next]_vars

\* The pages of the params specification: every nested element has the
\* handler in its own scope and names it; one element carries an
\* hx-handle-json-params attribute, any string up to MaxParamLen over the
\* characters a, b, comma and space; the server answers with JSON.
ParamChars == {"a", "b", ",", " "}
ParamStrings == UNION {[1..n -> ParamChars] : n \in 0..MaxParamLen}

InitParams ==
  /\ parentElement = Attached
  /\ hxHandleJson = [e \in Elems |-> IF e \in Nested THEN Attr(HandlerName)
                                     ELSE NoAttr]
  /\ \E e \in Nested, p \in ParamStrings :
       hxHandleJsonParams = [x \in Elems |-> IF x = e THEN Attr(p) ELSE NoAttr]
  /\ hxExt = {Html}
  /\ alpineData = [e \in Elems |-> IF e \in Nested THEN "function"
                                   ELSE "undefined"]
  /\ server = Responses({1}, {Attr(ApplicationJson)}, {JsonText})
  /\ listeners = {}
  /\ Sound /\ Loaded /\ Fresh

SpecParams == InitParams /\ [][Next]_vars

\* The pages of the errors specification: Alpine is loaded or not, the
\* handler returns or throws; any hx-handle-json on the nested elements, a
\* named one or none on body; the handler in the scope of any of the nested
\* elements.
InitErrors ==
  /\ parentElement = Attached
  /\ hxHandleJson \in [Elems -> HandlerAttrs]
  /\ hxHandleJson[Html] = NoAttr
  /\ hxHandleJson[Body] # Attr(<<>>)
  /\ hxHandleJsonParams = [e \in Elems |-> NoAttr]
  /\ hxExt = {Html}
  /\ alpineData \in [Elems -> {"undefined", "function"}]
  /\ alpineData[Html] = "undefined"
  /\ alpineData[Body] = "undefined"
  /\ server = Responses({1}, ContentTypes, Texts)
  /\ listeners = {}
  /\ alpineLoaded \in BOOLEAN
  /\ handlerThrows \in BOOLEAN
  /\ Loaded /\ Fresh

SpecErrors == InitErrors /\ [][Next]_vars

\* The pages of the lookup specification: each nested element is in place
\* or the root of a subtree detached from the document; every element names
\* the handler, which any of the scopes may hold; hx-ext="alpine-interop"
\* is on the root of each tree; the server answers with JSON or HTML.
InitLookup ==
  /\ parentElement \in [Elems -> Elems \cup {NoElt}]
  /\ parentElement[Html] = NoElt /\ parentElement[Body] = Html
  /\ \A n \in Nested : parentElement[n] \in {NoElt, n - 1}
  /\ hxHandleJson = [e \in Elems |-> Attr(HandlerName)]
  /\ hxHandleJsonParams = [e \in Elems |-> NoAttr]
  /\ hxExt = {e \in Elems : parentElement[e] = NoElt}
  /\ alpineData \in [Elems -> {"undefined", "function"}]
  /\ server = Responses({1}, {Attr(TextHtml), Attr(ApplicationJson)},
                        {JsonText})
  /\ listeners = {}
  /\ Sound /\ Loaded /\ Fresh

SpecLookup == InitLookup /\ [][Next]_vars

\* ------------------------------------------------------ the event variant
\* The extension as its event documentation and tests describe it: a JSON
\* response is parsed and announced by an htmx:jsonResponse event on the
\* triggering element, and the swap is turned off on the target.
JsonResponseEventName == "htmx:jsonResponse"
SwapNone == Attr(<<"none">>)

\* Mutant: the event carries no request object.
JsonResponseDetailNoXhr(responseData, xhr) ==
  [data |-> responseData, xhr |-> NoXhr.id]

\* event.detail of htmx:jsonResponse.
JsonResponseDetail(responseData, xhr) ==
  [data |-> responseData, xhr |-> xhr.id]

\* Mutant: the event is created without `bubbles`.
JsonResponseEventNoBubbles(elt, detail) ==
  [type |-> JsonResponseEventName, on |-> elt, bubbles |-> FALSE,
   detail |-> detail]

\* The htmx:jsonResponse event dispatched on elt: it bubbles.
JsonResponseEventOn(elt, detail) ==
  [type |-> JsonResponseEventName, on |-> elt, bubbles |-> TRUE,
   detail |-> detail]

\* The events the extension dispatches for a response: one htmx:jsonResponse
\* on elt when the response is JSON and its text parses.
jsonResponseEvents(text, xhr, elt) ==
  IF ~IsJsonResponse(xhr) THEN <<>>
  ELSE LET parsed == JSONparse(text) IN
    IF ~parsed.ok THEN <<>>
    ELSE << JsonResponseEventOn(elt, JsonResponseDetail(parsed.value, xhr)) >>

\* hx-swap="none" set on the target element.
SwapTurnedOff(t) == [hxSwap EXCEPT ![t] = SwapNone]

\* The elements an event dispatched on e passes: e, then its ancestors from
\* the nearest to the root.
RECURSIVE PropagationPath(_)
PropagationPath(e) ==
  IF e = NoElt THEN <<>> ELSE <<e>> \o PropagationPath(parentElement[e])

\* dispatchEvent: the listeners' elements the event reaches, in order: its
\* target, and when it bubbles the target's ancestors after it.
Delivery(event) ==
  LET HasListener(e) == e \in listeners
  IN SelectSeq(IF event.bubbles THEN PropagationPath(event.on)
               ELSE <<event.on>>, HasListener)

\* The swap style htmx uses for a response to elt: the hx-swap of the
\* nearest element from elt upwards that carries one, innerHTML otherwise.
RECURSIVE SwapStyle(_)
SwapStyle(e) ==
  IF e = NoElt THEN <<"innerHTML">>
  ELSE IF hxSwap[e].present THEN hxSwap[e].value
  ELSE SwapStyle(parentElement[e])

\* htmx receives a response for a request triggered by elt, with swap target
\* t, and the event variant of the extension handles it. Whether hx-swap is
\* also set for a JSON-typed response whose text does not parse is not
\* documented: both outcomes are allowed.
JsonResponseEvent ==
  /\ pc = "idle"
  /\ records = <<>>
  /\ \E r \in server, elt \in processed, t \in Elems :
       LET applies == InExtension(elt)
           made == IF applies THEN jsonResponseEvents(r.text, r.xhr, elt)
                   ELSE <<>>
       IN
         /\ req' = [text |-> r.text, xhr |-> r.xhr, elt |-> elt]
         /\ target' = t
         /\ events' = made
         /\ delivered' = IF made = <<>> THEN <<>> ELSE Delivery(made[1])
         /\ ret' = r.text
         /\ \/ /\ made # <<>>
               /\ hxSwap' = SwapTurnedOff(t)
               /\ errors' = 0
            \/ /\ made = <<>> /\ applies /\ IsJsonResponse(r.xhr)
               /\ hxSwap' \in {hxSwap, SwapTurnedOff(t)}
               /\ errors' = 1
            \/ /\ ~applies \/ ~IsJsonResponse(r.xhr)
               /\ UNCHANGED <<hxSwap, errors>>
  /\ pc' = "announced"
  /\ UNCHANGED <<dom, scripts, observer, posts, content, scope, calls,
                 swapPrevented, escaped, visited>>

\* htmx swaps the response into the target unless the swap style is none.
SwapEvent ==
  /\ pc = "announced"
  /\ LET prevented == SwapStyle(req.elt) = SwapNone.value IN
       /\ swapPrevented' = prevented
       /\ content' = IF prevented THEN content
                     ELSE [content EXCEPT ![target] = ret]
  /\ pc' = "swapped"
  /\ UNCHANGED <<dom, scripts, observer, hxSwap, posts, req, ret, scope,
                 calls, errors, events, delivered, target, escaped, visited>>

\* The pages of the event specification: hx-ext="alpine-interop" on one
\* element or on none; hx-handle-json on every nested element or on none;
\* htmx:jsonResponse listeners on any elements; two requests may be the one
\* answered.
InitEvent ==
  /\ parentElement = Attached
  /\ \E a \in {NoAttr, Attr(HandlerName)} :
       hxHandleJson = [e \in Elems |-> IF e \in Nested THEN a ELSE NoAttr]
  /\ hxHandleJsonParams = [e \in Elems |-> NoAttr]
  /\ hxExt \in {{}} \cup {{e} : e \in Elems}
  /\ alpineData = [e \in Elems |-> "undefined"]
  /\ server = Responses({1, 2}, ContentTypes, Texts \cup {<<"7">>})
  /\ listeners \in SUBSET Elems
  /\ Sound /\ Loaded /\ Fresh

NextEvent == JsonResponseEvent \/ SwapEvent

SpecEvent == InitEvent /\ [][NextEvent]_vars

\* ------------------------------------------------------------ the observer
\* The attributes of the selector "[hx-get], [hx-post], [hx-put],
\* [hx-delete], [hx-patch]".
RequestAttributes == {"hx-get", "hx-post", "hx-put", "hx-delete", "hx-patch"}

\* Mutant: only elements the extension applies to are looked at.
MatchesSelectorInExtension(n) ==
  hxRequest[n] \cap RequestAttributes # {} /\ InExtension(n)

\* Mutant: the selector has no [hx-patch].
MatchesSelectorWithoutPatch(n) ==
  hxRequest[n] \cap (RequestAttributes \ {"hx-patch"}) # {}

\* node.matches(selector): the element carries one of the five attributes.
MatchesSelector(n) == hxRequest[n] \cap RequestAttributes # {}

\* The nodes below n, in document order.
RECURSIVE Descendants(_)
Descendants(n) ==
  IF n + 1 \in Elems /\ parentElement[n + 1] = n
    THEN <<n + 1>> \o Descendants(n + 1)
    ELSE <<>>

\* node.querySelectorAll(selector): the descendant elements that match.
QuerySelectorAll(n) ==
  LET Selected(d) == nodeType[d] = "element" /\ MatchesSelector(d)
  IN SelectSeq(Descendants(n), Selected)

\* Mutant: the descendants of an added node are not looked at.
ProcessNodeItselfOnly(node) ==
  IF nodeType[node] = "element" /\ MatchesSelector(node) THEN <<node>>
  ELSE <<>>

\* The htmx.process calls the callback makes for one added node: for an
\* element, the node itself when it matches, then its matching descendants.
ProcessNode(node) ==
  IF nodeType[node] = "element"
    THEN (IF MatchesSelector(node) THEN <<node>> ELSE <<>>)
         \o QuerySelectorAll(node)
    ELSE <<>>

\* mutation.addedNodes.forEach.
RECURSIVE ForEachAddedNode(_)
ForEachAddedNode(nodes) ==
  IF nodes = <<>> THEN <<>>
  ELSE ProcessNode(Head(nodes)) \o ForEachAddedNode(Tail(nodes))

\* mutations.forEach: the callback's htmx.process calls, in order.
RECURSIVE ForEachMutation(_)
ForEachMutation(mutations) ==
  IF mutations = <<>> THEN <<>>
  ELSE (IF Len(Head(mutations).addedNodes) > 0
          THEN ForEachAddedNode(Head(mutations).addedNodes)
          ELSE <<>>)
       \o ForEachMutation(Tail(mutations))

\* The added nodes of the records, in order.
RECURSIVE AddedNodes(_)
AddedNodes(mutations) ==
  IF mutations = <<>> THEN <<>>
  ELSE Head(mutations).addedNodes \o AddedNodes(Tail(mutations))

\* n is in the subtree of document.body.
RECURSIVE UnderBody(_)
UnderBody(n) ==
  IF n = NoElt THEN FALSE
  ELSE parentElement[n] = Body \/ UnderBody(parentElement[n])

\* What htmx itself wires up when it initialises: the matching elements
\* that are in the document at that time.
InitiallyProcessed ==
  {n \in Elems : nodeType[n] = "element" /\ MatchesSelector(n) /\ UnderBody(n)}

\* Mutant: init looks at document.readyState and installs the observer at
\* once when the document has already been parsed.
DefineExtensionWhenReady ==
  /\ pc = "idle"
  /\ ~listenerAdded
  /\ listenerAdded' = TRUE
  /\ observing' = (readyState = "complete")
  /\ UNCHANGED <<dom, scripts, hxSwap, posts, content, pc, req, ret, scope,
                 calls, errors, events, target, swapPrevented, escaped, visited,
                 delivered, nodeType, hxRequest, readyState,
                 records, reported, processLog, processed>>

\* htmx.defineExtension runs init, which registers the DOMContentLoaded
\* listener, whatever the document's state.
DefineExtension ==
  /\ pc = "idle"
  /\ ~listenerAdded
  /\ listenerAdded' = TRUE
  /\ UNCHANGED <<dom, scripts, hxSwap, posts, content, pc, req, ret, scope,
                 calls, errors, events, target, swapPrevented, escaped, visited,
                 delivered, nodeType, hxRequest, readyState, observing,
                 records, reported, processLog, processed>>

\* The document has been parsed: DOMContentLoaded fires once. htmx
\* initialises the elements in the document; the extension's listener, when
\* it was registered in time, creates the observer and has it observe
\* document.body with childList and subtree.
DOMContentLoaded ==
  /\ pc = "idle"
  /\ readyState = "loading"
  /\ readyState' = "complete"
  /\ observing' = listenerAdded
  /\ processed' = processed \cup InitiallyProcessed
  /\ UNCHANGED <<dom, scripts, hxSwap, posts, content, pc, req, ret, scope,
                 calls, errors, events, target, swapPrevented, escaped, visited,
                 delivered, nodeType, hxRequest, listenerAdded, records,
                 reported, processLog>>

\* A script (Alpine rendering a template, a test) appends the detached node
\* n, with what is below it, to its parent-to-be. When the parent is in the
\* observed subtree, a record with n as added node is queued.
Insert(n) ==
  /\ pc = "idle"
  /\ parentElement[n] = NoElt
  /\ nodeType[n - 1] = "element"
  /\ parentElement' = [parentElement EXCEPT ![n] = n - 1]
  /\ records' = IF observing /\ (n - 1 = Body \/ UnderBody(n - 1))
                  THEN Append(records, [addedNodes |-> <<n>>])
                  ELSE records
  /\ UNCHANGED <<hxHandleJson, hxHandleJsonParams, hxExt, alpineData, server,
                 scripts, hxSwap, posts, content, pc, req, ret, scope, calls,
                 errors, events, target, swapPrevented, escaped, visited, delivered,
                 nodeType, hxRequest, readyState, listenerAdded, observing,
                 reported, processLog, processed>>

\* The observer's callback, run with the queued records once the script
\* that changed the document has ended.
ObserverCallback ==
  /\ pc = "idle"
  /\ records # <<>>
  /\ reported' = AddedNodes(records)
  /\ processLog' = ForEachMutation(records)
  /\ processed' = processed \cup
       {ForEachMutation(records)[i] : i \in 1..Len(ForEachMutation(records))}
  /\ records' = <<>>
  /\ UNCHANGED <<dom, scripts, hxSwap, posts, content, pc, req, ret, scope,
                 calls, errors, events, target, swapPrevented, escaped, visited,
                 delivered, nodeType, hxRequest, readyState, listenerAdded,
                 observing>>

\* What a node of the observer pages may carry besides nothing: one of the
\* five request attributes, or an hx-* attribute the selector does not name.
RequestChoices ==
  {{}} \cup {{a} : a \in RequestAttributes} \cup {{"hx-trigger"}}

\* The pages of the observer specification, while they load: the nested
\* nodes are elements or text nodes, each in place or still detached; the
\* elements carry any of the request choices and name the handler that the
\* outermost one holds; hx-ext="alpine-interop" is on body, on one of the
\* nested elements or nowhere; the extension is not defined yet.
InitObserver ==
  /\ nodeType \in [Elems -> {"element", "text"}]
  /\ nodeType[Html] = "element" /\ nodeType[Body] = "element"
  /\ parentElement \in [Elems -> Elems \cup {NoElt}]
  /\ parentElement[Html] = NoElt /\ parentElement[Body] = Html
  /\ \A n \in Nested :
       /\ parentElement[n] \in {NoElt, n - 1}
       /\ nodeType[n - 1] = "text" => parentElement[n] = NoElt
  /\ hxRequest \in [Elems -> RequestChoices]
  /\ \A n \in Elems : (n \notin Nested \/ nodeType[n] = "text")
                         => hxRequest[n] = {}
  /\ hxHandleJson = [n \in Elems |->
                       IF n \in Nested /\ nodeType[n] = "element"
                         THEN Attr(HandlerName) ELSE NoAttr]
  /\ hxHandleJsonParams = [n \in Elems |-> NoAttr]
  /\ hxExt \in {{}} \cup {{e} : e \in {Body} \cup Nested}
  /\ \A e \in hxExt : nodeType[e] = "element"
  /\ alpineData = [n \in Elems |->
                     IF n = Body + 1 /\ nodeType[n] = "element"
                       THEN "function" ELSE "undefined"]
  /\ server = Responses({1}, {Attr(ApplicationJson)}, {JsonText})
  /\ listeners = {Html}
  /\ readyState = "loading"
  /\ listenerAdded = FALSE
  /\ observing = FALSE
  /\ records = <<>>
  /\ reported = <<>>
  /\ processLog = <<>>
  /\ processed = {}
  /\ Sound /\ Fresh

\* The page loads and grows, and one response is handled by the variant of
\* the extension the page uses.
NextObserver ==
  \/ DefineExtension
  \/ DOMContentLoaded
  \/ \E n \in Nested : Insert(n)
  \/ ObserverCallback
  \/ TransformResponse
  \/ Swap
  \/ JsonResponseEvent
  \/ SwapEvent

SpecObserver == InitObserver /\ [][NextObserver]_vars

\* The page loads and grows; no response is followed.
NextLoading ==
  \/ DefineExtension
  \/ DOMContentLoaded
  \/ \E n \in Nested : Insert(n)
  \/ ObserverCallback

SpecLoading == InitObserver /\ [][NextLoading]_vars

\* The callback of a MutationObserver runs as a microtask, as soon as the
\* script that changed the document has returned.
SpecObserverFair == SpecObserver /\ WF_vars(ObserverCallback)

\* ================================================================ claims
\* Vocabulary of the claims, stated on the page rather than by the code.

\* transformResponse has handled the response req.
Handled == pc # "idle"
\* htmx has carried out (or skipped) the swap of the response.
Swapped == pc = "swapped"
\* The response's content-type header includes "application/json".
JsonContentType ==
  req.xhr.contentType \in {Attr(ApplicationJson), Attr(JsonUtf8)}
\* e and its ancestors.
RECURSIVE Up(_)
Up(e) == IF e = NoElt THEN {} ELSE {e} \cup Up(parentElement[e])
\* The elements of S that hold a function under the name elt's
\* hx-handle-json gives.
Holders(S, elt) ==
  {x \in S : hxHandleJson[elt] = Attr(HandlerName)
             /\ alpineData[x] = "function"}
\* The element of S nearest to the triggering element: every other element
\* of S is one of its ancestors.
IsNearest(x, S) == x \in S /\ \A y \in S : y \in Up(x)
\* e and its ancestors up to, and without, document.body: x is among them
\* when nothing from e up to x is document.body.
BelowBody(e) ==
  {x \in Up(e) : \A y \in Up(e) : x \in Up(y) => y # Body}
\* The page's Alpine data as it was before any handler ran.
InitialPosts == [e \in Elems |-> JsArray(<<>>)]
\* The page's content as it was before any swap.
InitialContent == [e \in Elems |-> OriginalContent]

C2_NonJsonNeverInvokes ==
  (Handled /\ ~JsonContentType) => (calls = <<>> /\ posts = InitialPosts)

C2_Witness ==
  /\ Handled /\ req.xhr.contentType = Attr(TextHtml)
  /\ Holders({req.elt}, req.elt) # {}
  /\ calls = <<>>

\* t is seg without its leading and trailing spaces.
IsTrimOf(t, seg) ==
  \E i \in 0..Len(seg), j \in 0..Len(seg) :
    /\ i + j <= Len(seg)
    /\ t = SubSeq(seg, i + 1, Len(seg) - j)
    /\ \A k \in 1..i : seg[k] = " "
    /\ \A k \in (Len(seg) - j + 1)..Len(seg) : seg[k] = " "
    /\ (t = <<>> \/ (t[1] # " " /\ t[Len(t)] # " "))
\* The position of the k-th comma of s; 0 before the first item and
\* Len(s) + 1 after the last one.
CommaAt(s, k) ==
  IF k = 0 THEN 0
  ELSE IF k > Cardinality({p \in 1..Len(s) : s[p] = ","}) THEN Len(s) + 1
  ELSE CHOOSE p \in 1..Len(s) :
         s[p] = "," /\ Cardinality({q \in 1..(p - 1) : s[q] = ","}) = k - 1
\* The k-th comma-separated item of s, untrimmed.
Item(s, k) == SubSeq(s, CommaAt(s, k - 1) + 1, CommaAt(s, k) - 1)

\* C3: the handler's second argument is the triggering element; the further
\* arguments are the comma-separated items of its hx-handle-json-params,
\* trimmed, as strings, in order; none when the attribute is absent or empty.
C3_ArgumentsAreTrimmedItems ==
  \A c \in 1..Len(calls) :
    LET a == hxHandleJsonParams[req.elt]
        n == Cardinality({p \in 1..Len(a.value) : a.value[p] = ","}) + 1
    IN /\ calls[c].elt = req.elt
       /\ IF ~a.present \/ a.value = <<>>
            THEN calls[c].rest = <<>>
            ELSE /\ Len(calls[c].rest) = n
                 /\ \A k \in 1..n :
                      IsTrimOf(calls[c].rest[k], Item(a.value, k))

C3_Witness ==
  /\ Len(calls) = 1
  /\ hxHandleJsonParams[req.elt] = Attr(<<" ", "a", ",", "b">>)
  /\ calls[1].rest = << <<"a">>, <<"b">> >>
  /\ calls[1].fn = req.elt

\* C4: the handler runs with `this` bound to the scope in which it was found:
\* its assignment to this.posts lands in that scope and in no other.
C4_ThisIsTheScopeFound ==
  /\ \A c \in 1..Len(calls) :
       /\ calls[c].this = calls[c].fn
       /\ posts = [InitialPosts EXCEPT ![calls[c].fn] = calls[c].data]
  /\ calls = <<>> => posts = InitialPosts

C4_Witness ==
  /\ Len(calls) = 1
  /\ calls[1].fn # req.elt
  /\ posts[calls[1].fn] = JsArray(<<JsNumber>>)
  /\ posts[req.elt] = JsArray(<<>>)

C6_HandlerPreventsSwap ==
  (Swapped /\ JsonContentType /\ target = req.elt /\ calls # <<>>)
    => (swapPrevented /\ content = InitialContent)

C6_Witness ==
  /\ Swapped /\ JsonContentType /\ target = req.elt
  /\ Len(calls) = 1
  /\ req.text = JsonText
  /\ swapPrevented
  /\ content[target] = OriginalContent

\* C7 (as claimed): when hx-handle-json is set but no element from the
\* triggering element up to the root has a function of that name, the swap of
\* the response is not prevented.
C7_AsClaimed ==
  (/\ Swapped
   /\ Truthy(hxHandleJson[req.elt])
   /\ Holders(Up(req.elt), req.elt) = {})
    => (~swapPrevented /\ content[target] = ret)

C9_AsClaimed ==
  (Swapped /\ ~JsonContentType)
    => (~swapPrevented /\ content[target] = ret)

InsideHxExt(e) == Up(e) \cap hxExt # {}
\* x is e or an ancestor of e.
IsAncestorOrSelf(x, e) == x \in Up(e)

C12_NonJsonFiresNoEvent ==
  (Handled /\ ~JsonContentType) => (events = <<>> /\ delivered = <<>>)

C12_Witness ==
  /\ Handled /\ req.xhr.contentType = Attr(TextHtml)
  /\ req.text = JsonText
  /\ InsideHxExt(req.elt)
  /\ req.elt \in listeners
  /\ events = <<>>

\* C13 (as claimed): after a JSON response on an element inside
\* hx-ext="alpine-interop" that is its own swap target, with or without
\* hx-handle-json, the element's hx-swap is "none" and the page's content is
\* unchanged.
C13_AsClaimed ==
  (/\ Swapped /\ JsonContentType /\ JSONparse(req.text).ok
   /\ InsideHxExt(req.elt) /\ target = req.elt)
    => /\ hxSwap[req.elt] = Attr(<<"none">>)
       /\ content = InitialContent

\* n is an element that carries hx-get, hx-post, hx-put, hx-delete or
\* hx-patch.
IsRequestElement(n) ==
  /\ nodeType[n] = "element"
  /\ \E a \in {"hx-get", "hx-post", "hx-put", "hx-delete", "hx-patch"} :
       a \in hxRequest[n]
\* The elements of a sequence.
Range(s) == {s[i] : i \in 1..Len(s)}

\* C14: once the observer is installed, every element in the subtree of
\* document.body that carries one of the five request attributes is
\* eventually passed to htmx.process (the elements already there when htmx
\* initialised were processed by htmx itself); and a response is only ever
\* handled for an element that has been processed.
C14_InsertedElementsEventuallyProcessed ==
  /\ \A n \in Nested :
       []((observing /\ Body \in Up(n) /\ IsRequestElement(n))
            => <>(n \in processed))
  /\ [](Handled => req.elt \in processed)

C14_Witness ==
  /\ Handled /\ JsonContentType
  /\ req.elt \in Range(processLog)
  /\ req.elt \notin Range(reported)
  /\ Len(calls) = 1
  /\ calls[1].elt = req.elt

\* C15: for a dynamically added request element that is not inside any
\* hx-ext="alpine-interop", a JSON response invokes no Alpine handler and
\* fires no htmx:jsonResponse, even when an ancestor's scope defines the
\* handler its hx-handle-json names.
C15_OutsideHxExtNothingRuns ==
  (Handled /\ ~InsideHxExt(req.elt))
    => (calls = <<>> /\ posts = InitialPosts /\ events = <<>>)

C15_Witness ==
  /\ Handled /\ JsonContentType
  /\ ~InsideHxExt(req.elt)
  /\ req.elt \in Range(processLog)
  /\ hxHandleJson[req.elt] = Attr(HandlerName)
  /\ Holders(Up(req.elt) \ {req.elt}, req.elt) # {}
  /\ calls = <<>> /\ events = <<>>

\* C18: a run of the observer's callback calls htmx.process exactly on the
\* elements that carry one of the five request attributes and are an added
\* element node of the records or a descendant of one; never on a text
\* node, never on an element without such an attribute.
C18_CallbackProcessesRequestElements ==
  [][(records # <<>> /\ records' = <<>>) =>
       LET given == UNION {Range(records[i].addedNodes) :
                             i \in 1..Len(records)}
       IN /\ Range(reported') = given
          /\ Range(processLog') =
               {x \in Elems :
                  /\ IsRequestElement(x)
                  /\ \E n \in given : nodeType[n] = "element" /\ n \in Up(x)}
    ]_vars

C18_Witness ==
  /\ reported = <<Body + 1>>
  /\ hxRequest[Body + 1] = {"hx-trigger"}
  /\ hxRequest[Body + 2] = {"hx-patch"}
  /\ processLog = <<Body + 2>>
  /\ processed = {Body + 2}

\* Something throws inside transformResponse for the response req: the
\* response is JSON and the element names a handler, and either Alpine is
\* missing when the lookup asks it for a scope, or the handler is found and
\* the text does not parse, or the handler is found, called and throws.
Throws ==
  /\ JsonContentType
  /\ hxHandleJson[req.elt].present /\ hxHandleJson[req.elt].value # <<>>
  /\ \/ ~alpineLoaded /\ req.elt # Body
     \/ /\ alpineLoaded
        /\ Holders(BelowBody(req.elt), req.elt) # {}
        /\ \/ req.text # <<>> /\ ~JSONparse(req.text).ok
           \/ handlerThrows

\* C16: no exception leaves transformResponse: when the scope lookup, the
\* parse or the handler throws, one error is logged and the original text is
\* returned; and whether the swap is prevented is decided by the target's
\* hx-handle-json alone, error or not.
C16_ErrorsAreCaught ==
  /\ ~escaped
  /\ Handled => /\ Throws => (errors = 1 /\ ret = req.text)
                /\ ~Throws => errors = 0
  /\ Swapped => (swapPrevented <=>
                   (hxHandleJson[target].present
                    /\ hxHandleJson[target].value # <<>>))

C16_Witness ==
  /\ Swapped /\ handlerThrows /\ alpineLoaded
  /\ Len(calls) = 1
  /\ errors = 1
  /\ ret = JsonText
  /\ target = req.elt
  /\ swapPrevented

\* C17: a response labelled application/json whose non-empty text is not
\* valid JSON invokes no handler, also when the handler was found; the text
\* is returned as it came and an error is logged when the handler was found.
C17_InvalidJsonNeverInvokes ==
  (/\ Handled /\ JsonContentType
   /\ req.text # <<>> /\ ~JSONparse(req.text).ok)
    => /\ calls = <<>>
       /\ posts = InitialPosts
       /\ ret = req.text
       /\ Holders(BelowBody(req.elt), req.elt) # {}
            => (scope \in Holders(BelowBody(req.elt), req.elt) /\ errors = 1)

C17_Witness ==
  /\ Handled /\ req.xhr.contentType = Attr(ApplicationJson)
  /\ req.text = BrokenText
  /\ scope = req.elt
  /\ calls = <<>>
  /\ errors = 1
  /\ ret = BrokenText

\* C19: transformResponse returns the text it was given, on every path:
\* response not JSON, no hx-handle-json, handler not found, handler invoked,
\* error caught.
C19_ReturnsTextUnchanged ==
  Handled => (ret = req.text /\ ~escaped)

C19_Witness ==
  /\ pc = "transformed"
  /\ Len(calls) = 1 /\ ~handlerThrows
  /\ errors = 0
  /\ req.text = JsonText
  /\ ret = JsonText

C22_ObserverNeedsDOMContentLoadedAfterInit ==
  /\ [](observing => (listenerAdded /\ readyState = "complete"))
  /\ [][(~observing /\ observing')
          => (listenerAdded /\ readyState = "loading"
              /\ readyState' = "complete")]_vars
  /\ \A n \in Nested :
       []((~observing /\ Body \in Up(n))
            => [](n \notin Range(processLog)))
  /\ []((readyState = "complete" /\ ~observing)
          => [](~observing /\ records = <<>> /\ processLog = <<>>))

C22_Witness ==
  /\ readyState = "complete"
  /\ listenerAdded
  /\ ~observing
  /\ IsRequestElement(Depth + 1)
  /\ Body \in Up(Depth + 1)
  /\ Depth + 1 \notin processed
  /\ processLog = <<>>

\* C23: the observer does not look at hx-ext: every request element among
\* the nodes its callback was given has been passed to htmx.process,
\* whether or not it or an ancestor carries hx-ext="alpine-interop".
C23_ObserverIgnoresHxExt ==
  \A n \in Range(reported) :
    IsRequestElement(n) => (n \in Range(processLog) /\ n \in processed)

C23_Witness ==
  /\ observing
  /\ hxExt = {}
  /\ reported = <<Depth + 1>>
  /\ IsRequestElement(Depth + 1)
  /\ processLog = <<Depth + 1>>
  /\ Depth + 1 \in processed

\* C24: the scope lookup ends within the length of the path from the
\* triggering element to the root of its tree: its loop body runs for the
\* triggering element first and then for parent after parent, for no
\* element twice and never for document.body, and the last element it runs
\* for is the first match, or a child of document.body, or an element
\* without parent (the root of a tree detached from the document).
C24_LookupTerminates ==
  Handled =>
    /\ Len(visited) <= Cardinality(Up(req.elt))
    /\ \A i \in 1..Len(visited) :
         /\ visited[i] \in Up(req.elt) \ {Body}
         /\ \A j \in 1..Len(visited) : i # j => visited[i] # visited[j]
         /\ i < Len(visited) =>
              /\ visited[i + 1] = parentElement[visited[i]]
              /\ alpineData[visited[i]] # "function"
    /\ visited # <<>> =>
         /\ visited[1] = req.elt
         /\ LET last == visited[Len(visited)] IN
              \/ alpineData[last] = "function" /\ scope = last
              \/ /\ alpineData[last] # "function"
                 /\ parentElement[last] \in {Body, NoElt}
                 /\ scope = NoElt
    /\ (JsonContentType /\ req.elt # Body) => visited # <<>>

C24_Witness ==
  /\ Handled /\ JsonContentType
  /\ req.elt = Depth + 1
  /\ Body \notin Up(req.elt)
  /\ parentElement[Depth] = NoElt
  /\ visited = <<Depth + 1, Depth>>
  /\ scope = NoElt /\ calls = <<>>

====
